---- MODULE Spec2Model ----
(***************************************************************************)
(* Model of the video tool layer of video_edit_mcp                         *)
(* (src/video_edit_mcp/video_operations.py).                               *)
(*                                                                         *)
(* Every tool is one action.  A tool call runs to completion: the action   *)
(* computes the whole handler (validation, path resolution, loads, engine  *)
(* calls, write or store, exception handler) and records what the caller   *)
(* gets back (the envelope) and what the call did (the trace of calls to   *)
(* the Path Resolver, the Object Store and the Media Engine) in `last`.    *)
(*                                                                         *)
(* The Object Store (VideoStore) and the Path Resolver (get_output_path)   *)
(* live in utils.py, which is not part of the sources at hand; they are    *)
(* modelled from the specification.  The Media Engine (moviepy) is an      *)
(* external library: every engine call may raise, chosen by `fault`.       *)
(***************************************************************************)
EXTENDS Integers, Sequences, FiniteSets, TLC

VARIABLES
    store,      \* VideoStore: reference -> clip
    nextRef,    \* number of references generated so far
    issued,     \* history: every reference handed to a caller, in order
    trimmed,    \* history: references trim_video returned for a file it opened
    openClips,  \* paths with a reader opened from a file and not closed
    last,       \* the call whose envelope is on its way to the caller
    calls       \* the calls in progress when the server runs handlers in parallel

vars == <<store, nextRef, issued, trimmed, openClips, last, calls>>

(***************************************************************************)
(* Bounds of the model.                                                    *)
(***************************************************************************)
\* the largest number of entries the Object Store holds in the model
MaxStore == 3
\* the largest number of transformations applied to a clip that is stored
MaxFx == 1
\* the largest number of split times passed to split_video_at_times
MaxSplits == 2

(***************************************************************************)
(* Input universe.                                                         *)
(***************************************************************************)
OpenablePaths == {"in.mp4"}
AudioPaths == {"a.mp3"}
ImagePaths == {"logo.png"}
ImageFolders == {"frames"}
Paths == OpenablePaths \cup {"missing.mp4"}
OutputNames == {"out.mp4"}
Faults == {"none", "resolver", "xform", "write"}

\* duration (seconds) the engine reports for an opened file
FileDuration == [p \in OpenablePaths \cup AudioPaths |-> 2]
\* number of images in an image folder
FolderImages == [p \in ImageFolders |-> 2]

RefName == <<"ref1", "ref2", "ref3", "ref4", "ref5", "ref6", "ref7", "ref8">>
OutputFields == {"output_path", "output_paths", "output_object", "output_objects"}

Max(a, b) == IF a >= b THEN a ELSE b
Range(s) == {s[i] : i \in 1..Len(s)}

\* a clip: its duration and the number of transformations applied to the
\* decoded file it comes from
Clip(d, n) == [dur |-> d, fx |-> n]
\* an event of the call trace
Ev(k, a, n) == [k |-> k, a |-> a, n |-> n]
Kinds(tr) == {tr[i].k : i \in 1..Len(tr)}
\* a file location
Loc(dir, name, part) == [dir |-> dir, name |-> name, part |-> part]

(***************************************************************************)
(* The running call: `exc` is the exception raised so far ("" for none);   *)
(* once it is set every later step of the try block is skipped.            *)
(***************************************************************************)
Begin ==
    [exc |-> "", trace |-> <<>>, path |-> Loc("", "", 0), clips |-> <<>>,
     store |-> store, next |-> nextRef, refs |-> <<>>, written |-> <<>>,
     open |-> {}]

Raise(rs, e) == [rs EXCEPT !.exc = e]

\* utils.get_output_path: a pure function of the output name
resolve_output(name) == Loc("output", name, 0)

get_output_path(rs, name, fault) ==
    IF rs.exc # "" THEN rs
    ELSE IF fault = "resolver"
         THEN Raise([rs EXCEPT !.trace = Append(@, Ev("resolve", name, <<>>))], "ResolverError")
         ELSE [rs EXCEPT !.trace = Append(@, Ev("resolve", name, <<>>)),
                         !.path = resolve_output(name)]

\* VideoFileClip(path): the engine opens a file
VideoFileClip(rs, path) ==
    IF rs.exc # "" THEN rs
    ELSE IF path \in OpenablePaths
         THEN [rs EXCEPT !.trace = Append(@, Ev("open", path, <<>>)),
                         !.clips = Append(@, Clip(FileDuration[path], 0)),
                         !.open = @ \cup {path}]
         ELSE Raise([rs EXCEPT !.trace = Append(@, Ev("open", path, <<>>))], "OSError")

\* VideoStore.load: a known reference gives the cached clip, anything else
\* is opened as a path
VideoStore_load(rs, id) ==
    IF rs.exc # "" THEN rs
    ELSE IF id \in DOMAIN rs.store
         THEN [rs EXCEPT !.trace = Append(@, Ev("load", id, <<>>)),
                         !.clips = Append(@, rs.store[id])]
         ELSE VideoFileClip([rs EXCEPT !.trace = Append(@, Ev("load", id, <<>>))], id)

\* AudioStore.load: no tool stores audio, so the identifier is opened
AudioStore_load(rs, id) ==
    IF rs.exc # "" THEN rs
    ELSE IF id \in AudioPaths
         THEN [rs EXCEPT !.trace = Append(@, Ev("load", id, <<>>)) \o <<Ev("open", id, <<>>)>>,
                         !.clips = Append(@, Clip(FileDuration[id], 0)),
                         !.open = @ \cup {id}]
         ELSE Raise([rs EXCEPT !.trace = Append(@, Ev("load", id, <<>>)) \o <<Ev("open", id, <<>>)>>],
                    "OSError")

\* VideoStore.store: registers the clip under a freshly generated reference
VideoStore_store(rs, clip) ==
    IF rs.exc # "" THEN rs
    ELSE LET ref == RefName[rs.next + 1]
         IN [rs EXCEPT !.trace = Append(@, Ev("store", ref, <<>>)),
                       !.store = [r \in DOMAIN rs.store \cup {ref} |->
                                     IF r = ref THEN clip ELSE rs.store[r]],
                       !.next = @ + 1,
                       !.refs = Append(@, ref)]

\* an engine transformation `fn` with numeric arguments `n`, producing
\* `clip`; it raises when the engine rejects the call
Engine(rs, fn, n, raises, clip) ==
    IF rs.exc # "" THEN rs
    ELSE IF raises
         THEN Raise([rs EXCEPT !.trace = Append(@, Ev(fn, "", n))], "EngineError")
         ELSE [rs EXCEPT !.trace = Append(@, Ev(fn, "", n)),
                         !.clips = Append(@, clip)]

\* the faults of a write that comes after i successful writes of the call
LaterWrites == <<"write2", "write3", "write4">>

\* clip.write_videofile(path) / imageio.imwrite(path, frame); the encoder may
\* fail on the first file of a call ("write") or on a later one
Write(rs, fn, path, clip, fault) ==
    IF rs.exc # "" THEN rs
    ELSE IF \/ fault = "write"
            \/ \E i \in 1..Len(LaterWrites) : fault = LaterWrites[i] /\ Len(rs.written) = i
         THEN Raise([rs EXCEPT !.trace = Append(@, Ev(fn, path.name, <<path.part>>))], "EncodeError")
         ELSE [rs EXCEPT !.trace = Append(@, Ev(fn, path.name, <<path.part>>)),
                         !.written = Append(@, [path |-> path, clip |-> clip])]

\* clip.close()
Close(rs, path) ==
    [rs EXCEPT !.trace = Append(@, Ev("close", path, <<>>)),
               !.open = @ \ {path}]

Top(rs) == rs.clips[Len(rs.clips)]

(***************************************************************************)
(* Envelopes.                                                              *)
(***************************************************************************)
ValidationEnvelope(err, msg) ==
    [success |-> FALSE, error |-> err, message |-> msg]

\* a handler that forgets error_type
ExceptionEnvelope_NoType(exc, msg) ==
    [success |-> FALSE, error |-> exc, message |-> msg]

ExceptionEnvelope(exc, msg) ==
    [success |-> FALSE, error |-> exc, error_type |-> exc, message |-> msg]

PathEnvelope(path) ==
    [success |-> TRUE, output_path |-> path, message |-> "ok"]

\* a store branch that also fills in output_path
ObjectEnvelope_Both(ref) ==
    [success |-> TRUE, output_object |-> ref, output_path |-> ref]

ObjectEnvelope(ref) ==
    [success |-> TRUE, output_object |-> ref]

\* what a handler hands back: the envelope and the effects of the call
Result(op, rp, valid, env, rs, log) ==
    [op |-> op, rp |-> rp, valid |-> valid, returned |-> TRUE, env |-> env,
     raised |-> rs.exc, trace |-> rs.trace, written |-> rs.written,
     refs |-> rs.refs, left |-> rs.open, log |-> log,
     store |-> rs.store, next |-> rs.next]

\* an early return of the input validation
Invalid(op, rp, err, msg) ==
    Result(op, rp, FALSE, ValidationEnvelope(err, msg), Begin, <<>>)

\* an except block that returns the failure envelope without logging
Except_Silent(op, rp, rs, id, msg) ==
    Result(op, rp, TRUE, ExceptionEnvelope(rs.exc, msg), rs, <<>>)

\* except Exception as e: logger.error(f"... {video_path}: {e}"); return the
\* failure envelope. A log record is the identifiers its message names.
Except(op, rp, rs, id, msg) ==
    Result(op, rp, TRUE, ExceptionEnvelope(rs.exc, msg), rs, << <<id>> >>)

\* a store branch that puts the result back under the input reference
Emit_Rebind(op, rp, rs, clip, fault, id, msg) ==
    IF rp
    THEN LET w == Write(rs, "write_videofile", rs.path, clip, fault)
         IN IF w.exc # "" THEN Except(op, rp, w, id, msg)
            ELSE Result(op, rp, TRUE, PathEnvelope(rs.path), w, <<>>)
    ELSE IF id \in DOMAIN rs.store
    THEN Result(op, rp, TRUE, ObjectEnvelope(id),
                [rs EXCEPT !.store = [r \in DOMAIN rs.store |->
                                         IF r = id THEN clip ELSE rs.store[r]]], <<>>)
    ELSE LET s == VideoStore_store(rs, clip)
         IN IF s.exc # "" THEN Except(op, rp, s, id, msg)
            ELSE Result(op, rp, TRUE, ObjectEnvelope(s.refs[1]), s, <<>>)

\* a handler that writes the file whatever return_path says
Emit_AlwaysWrite(op, rp, rs, clip, fault, id, msg) ==
    LET w == Write(rs, "write_videofile", rs.path, clip, "none")
    IN IF rp
       THEN Result(op, rp, TRUE, PathEnvelope(rs.path), w, <<>>)
       ELSE LET s == VideoStore_store(w, clip)
            IN Result(op, rp, TRUE, ObjectEnvelope(s.refs[1]), s, <<>>)

\* if return_path: write and return output_path; else: store and return
\* output_object
Emit(op, rp, rs, clip, fault, id, msg) ==
    IF rp
    THEN LET w == Write(rs, "write_videofile", rs.path, clip, fault)
         IN IF w.exc # "" THEN Except(op, rp, w, id, msg)
            ELSE Result(op, rp, TRUE, PathEnvelope(rs.path), w, <<>>)
    ELSE LET s == VideoStore_store(rs, clip)
         IN IF s.exc # "" THEN Except(op, rp, s, id, msg)
            ELSE Result(op, rp, TRUE, ObjectEnvelope(s.refs[1]), s, <<>>)

(***************************************************************************)
(* Media Engine results (moviepy 1.0.3, as far as durations go).           *)
(***************************************************************************)
\* clip.subclip(t_start, t_end): raises when t_start is past the end
subclip_raises(clip, s, e) == s > clip.dur
subclip(clip, s, e) ==
    LET s1 == IF s < 0 THEN clip.dur + s ELSE s
        e1 == IF e < 0 THEN clip.dur + e ELSE e
    IN Clip(e1 - s1, clip.fx + 1)
\* any other single-clip effect keeps the duration
effect(clip) == Clip(clip.dur, clip.fx + 1)

(***************************************************************************)
(* The tools.                                                              *)
(***************************************************************************)
trim_video(video_path, start_time, end_time, output_name, return_path, fault) ==
    IF start_time < 0 \/ end_time < 0
    THEN Invalid("trim_video", return_path, "Start and end times must be positive",
                 "Invalid time parameters")
    ELSE IF start_time >= end_time
    THEN Invalid("trim_video", return_path, "Start time must be less than end time",
                 "Invalid time range")
    ELSE LET r1 == get_output_path(Begin, output_name, fault)
             r2 == VideoStore_load(r1, video_path)
             r3 == Engine(r2, "subclip", <<start_time, end_time>>,
                          fault = "xform" \/ subclip_raises(Top(r2), start_time, end_time),
                          subclip(Top(r2), start_time, end_time))
         IN IF r3.exc # "" THEN Except("trim_video", return_path, r3, video_path, "Error trimming video")
            ELSE Emit("trim_video", return_path, r3, Top(r3), fault, video_path, "Error trimming video")

\* except Exception as e in get_video_info: log, return the failure envelope
InfoExcept(rs, id) ==
    Result("get_video_info", FALSE, TRUE,
           [success |-> FALSE, error |-> rs.exc, error_type |-> rs.exc], rs, << <<id>> >>)

\* a get_video_info without the finally block
get_video_info_NoFinally(video_path, fault) ==
    LET r1 == VideoFileClip(Begin, video_path)
        r2 == Engine(r1, "metadata", <<>>, fault = "xform", Top(r1))
    IN IF r1.exc # ""
       THEN InfoExcept(r1, video_path)
       ELSE IF r2.exc # ""
       THEN InfoExcept(r2, video_path)
       ELSE Result("get_video_info", FALSE, TRUE,
                   [success |-> TRUE, video_info |-> [duration |-> Top(r2).dur]],
                   Close(r2, video_path), <<>>)

get_video_info(video_path, fault) ==
    LET r1 == VideoFileClip(Begin, video_path)
        \* reading the metadata of the opened clip
        r2 == Engine(r1, "metadata", <<>>, fault = "xform", Top(r1))
    IN IF r1.exc # ""
       THEN \* the open raised: 'video' is not bound, finally closes nothing
            InfoExcept(r1, video_path)
       ELSE IF r2.exc # ""
       THEN \* except, then finally: video.close()
            InfoExcept(Close(r2, video_path), video_path)
       ELSE \* video.close(), return, then finally: video.close() again
            Result("get_video_info", FALSE, TRUE,
                   [success |-> TRUE, video_info |-> [duration |-> Top(r2).dur]],
                   Close(Close(r2, video_path), video_path), <<>>)

\* a body that resolves its input before it asks for the output path
one_effect_LoadFirst(op, video_path, output_name, return_path, fault, fn, n, msg) ==
    LET r1 == VideoStore_load(Begin, video_path)
        r2 == get_output_path(r1, output_name, fault)
        r3 == Engine(r2, fn, n, fault = "xform", effect(Top(r2)))
    IN IF r3.exc # "" THEN Except(op, return_path, r3, video_path, msg)
       ELSE Emit(op, return_path, r3, Top(r3), fault, video_path, msg)

\* the body shared by the tools with one video input and one engine effect:
\* get_output_path, VideoStore.load, the effect, then write or store
one_effect(op, video_path, output_name, return_path, fault, fn, n, msg) ==
    LET r1 == get_output_path(Begin, output_name, fault)
        r2 == VideoStore_load(r1, video_path)
        r3 == Engine(r2, fn, n, fault = "xform", effect(Top(r2)))
    IN IF r3.exc # "" THEN Except(op, return_path, r3, video_path, msg)
       ELSE Emit(op, return_path, r3, Top(r3), fault, video_path, msg)

\* a merge that opens its second input as a file instead of asking the store
merge_video_OpenSecond(video_path, video_path2, output_name, return_path, fault) ==
    LET r1 == get_output_path(Begin, output_name, fault)
        r2 == VideoStore_load(r1, video_path)
        r3 == VideoFileClip(r2, video_path2)
        r4 == Engine(r3, "concatenate_videoclips", <<>>, fault = "xform",
                     Clip(r3.clips[1].dur + r3.clips[2].dur,
                          Max(r3.clips[1].fx, r3.clips[2].fx) + 1))
        o == IF r4.exc # ""
             THEN Except("merge_video", return_path, r4, video_path, "Error merging videos")
             ELSE Emit("merge_video", return_path, r4, Top(r4), fault, video_path,
                       "Error merging videos")
    IN \* logger.error(f"Error merging videos {video_path} and {video_path2}: {e}")
       [o EXCEPT !.log = IF @ = <<>> THEN @ ELSE << <<video_path, video_path2>> >>]

merge_video(video_path, video_path2, output_name, return_path, fault) ==
    LET r1 == get_output_path(Begin, output_name, fault)
        r2 == VideoStore_load(r1, video_path)
        r3 == VideoStore_load(r2, video_path2)
        r4 == Engine(r3, "concatenate_videoclips", <<>>, fault = "xform",
                     Clip(r3.clips[1].dur + r3.clips[2].dur,
                          Max(r3.clips[1].fx, r3.clips[2].fx) + 1))
        o == IF r4.exc # ""
             THEN Except("merge_video", return_path, r4, video_path, "Error merging videos")
             ELSE Emit("merge_video", return_path, r4, Top(r4), fault, video_path,
                       "Error merging videos")
    IN \* logger.error(f"Error merging videos {video_path} and {video_path2}: {e}")
       [o EXCEPT !.log = IF @ = <<>> THEN @ ELSE << <<video_path, video_path2>> >>]

resize_video(video_path, size, output_name, return_path, fault) ==
    IF size = <<>> \/ Len(size) # 2 \/ size[1] <= 0 \/ size[2] <= 0
    THEN Invalid("resize_video", return_path,
                 "Size must be a tuple of two positive integers (width, height)",
                 "Invalid size parameters")
    ELSE one_effect("resize_video", video_path, output_name, return_path, fault,
                    "resize", size, "Error resizing video")

\* a validation that lets an empty crop box through
crop_invalid_Lax(x1, y1, x2, y2) == x1 < 0 \/ y1 < 0 \/ x2 < x1 \/ y2 < y1

\* if x1 < 0 or y1 < 0 or x2 <= x1 or y2 <= y1
crop_invalid(x1, y1, x2, y2) == x1 < 0 \/ y1 < 0 \/ x2 <= x1 \/ y2 <= y1

crop_video(video_path, x1, y1, x2, y2, output_name, return_path, fault) ==
    IF crop_invalid(x1, y1, x2, y2)
    THEN Invalid("crop_video", return_path,
                 "Invalid crop coordinates. x2 > x1 and y2 > y1, all values must be non-negative",
                 "Invalid crop parameters")
    ELSE one_effect("crop_video", video_path, output_name, return_path, fault,
                    "crop", <<x1, y1, x2, y2>>, "Error cropping video")

\* angle is [num |-> isinstance(angle, (int, float)), val |-> its value]
rotate_video(video_path, angle, output_name, return_path, fault) ==
    IF ~angle.num
    THEN Invalid("rotate_video", return_path, "Angle must be a number", "Invalid angle parameter")
    ELSE one_effect("rotate_video", video_path, output_name, return_path, fault,
                    "rotate", <<angle.val>>, "Error rotating video")

speed_up_video(video_path, speed, output_name, return_path, fault) ==
    IF speed <= 0
    THEN Invalid("speed_up_video", return_path,
                 "Speed must be positive (e.g., 2.0 for 2x speed)", "Invalid speed parameter")
    ELSE LET r1 == get_output_path(Begin, output_name, fault)
             r2 == VideoStore_load(r1, video_path)
             \* speedx sets the duration to duration / factor
             r3 == Engine(r2, "speedx", <<speed>>, fault = "xform",
                          Clip(Top(r2).dur \div speed, Top(r2).fx + 1))
         IN IF r3.exc # "" THEN Except("speed_up_video", return_path, r3, video_path, "Error changing video speed")
            ELSE Emit("speed_up_video", return_path, r3, Top(r3), fault, video_path, "Error changing video speed")

add_audio(video_path, audio_path, output_name, return_path, fault) ==
    LET r1 == get_output_path(Begin, output_name, fault)
        r2 == VideoStore_load(r1, video_path)
        r3 == AudioStore_load(r2, audio_path)
        r4 == Engine(r3, "set_audio", <<>>, fault = "xform", effect(r3.clips[1]))
    IN IF r4.exc # "" THEN Except("add_audio", return_path, r4, video_path, "Error adding audio to video")
       ELSE Emit("add_audio", return_path, r4, Top(r4), fault, video_path, "Error adding audio to video")

\* a fade in that opens its input as a file instead of asking the store
fadein_video_Open(video_path, fade_duration, output_name, return_path, fault) ==
    IF fade_duration <= 0
    THEN Invalid("fadein_video", return_path, "Fade duration must be positive",
                 "Invalid fade duration parameter")
    ELSE LET r1 == get_output_path(Begin, output_name, fault)
             r2 == VideoFileClip(r1, video_path)
             r3 == Engine(r2, "fadein", <<fade_duration>>, fault = "xform", effect(Top(r2)))
         IN IF r3.exc # ""
            THEN Except("fadein_video", return_path, r3, video_path, "Error adding fade in effect")
            ELSE Emit("fadein_video", return_path, r3, Top(r3), fault, video_path,
                      "Error adding fade in effect")

fadein_video(video_path, fade_duration, output_name, return_path, fault) ==
    IF fade_duration <= 0
    THEN Invalid("fadein_video", return_path, "Fade duration must be positive",
                 "Invalid fade duration parameter")
    ELSE one_effect("fadein_video", video_path, output_name, return_path, fault,
                    "fadein", <<fade_duration>>, "Error adding fade in effect")

fadeout_video(video_path, fade_duration, output_name, return_path, fault) ==
    IF fade_duration <= 0
    THEN Invalid("fadeout_video", return_path, "Fade duration must be positive",
                 "Invalid fade duration parameter")
    ELSE one_effect("fadeout_video", video_path, output_name, return_path, fault,
                    "fadeout", <<fade_duration>>, "Error adding fade out effect")

\* text is blank when `not text or not text.strip()`
Blank(text) == text \in {"", " "}

add_text_overlay(video_path, text, font_size, duration, output_name, return_path, fault) ==
    IF Blank(text)
    THEN Invalid("add_text_overlay", return_path, "Text cannot be empty", "Invalid text parameter")
    ELSE IF font_size <= 0
    THEN Invalid("add_text_overlay", return_path, "Font size must be positive",
                 "Invalid font size parameter")
    ELSE IF duration <= 0
    THEN Invalid("add_text_overlay", return_path, "Duration must be positive",
                 "Invalid duration parameter")
    ELSE LET r1 == get_output_path(Begin, output_name, fault)
             r2 == VideoStore_load(r1, video_path)
             \* TextClip(...) renders the text with the ImageMagick binary
             r3 == Engine(r2, "TextClip", <<font_size>>, fault = "xform", Clip(duration, 0))
             \* the composite lasts as long as its longest layer
             r4 == Engine(r3, "CompositeVideoClip", <<>>, FALSE,
                          Clip(Max(r3.clips[1].dur, duration), r3.clips[1].fx + 1))
         IN IF r4.exc # ""
            THEN Except("add_text_overlay", return_path, r4, video_path, "Error adding text overlay")
            ELSE Emit("add_text_overlay", return_path, r4, Top(r4), fault, video_path,
                      "Error adding text overlay")

add_image_overlay(video_path, image_path, duration, output_name, return_path, fault) ==
    IF duration <= 0
    THEN Invalid("add_image_overlay", return_path, "Duration must be positive",
                 "Invalid duration parameter")
    ELSE LET r1 == get_output_path(Begin, output_name, fault)
             r2 == VideoStore_load(r1, video_path)
             r3 == Engine(r2, "ImageClip", <<>>, fault = "xform" \/ image_path \notin ImagePaths,
                          Clip(duration, 0))
             r4 == Engine(r3, "CompositeVideoClip", <<>>, FALSE,
                          Clip(Max(r3.clips[1].dur, duration), r3.clips[1].fx + 1))
         IN IF r4.exc # ""
            THEN Except("add_image_overlay", return_path, r4, video_path, "Error adding image overlay")
            ELSE Emit("add_image_overlay", return_path, r4, Top(r4), fault, video_path,
                      "Error adding image overlay")

grayscale_video(video_path, output_name, return_path, fault) ==
    one_effect("grayscale_video", video_path, output_name, return_path, fault,
               "blackwhite", <<>>, "Error converting video to grayscale")

images_to_video(images_folder_path, fps, output_name, return_path, fault) ==
    LET r1 == get_output_path(Begin, output_name, fault)
        r2 == Engine(r1, "ImageSequenceClip", <<fps>>,
                     fault = "xform" \/ images_folder_path \notin ImageFolders,
                     Clip(FolderImages[images_folder_path] \div fps, 0))
    IN IF r2.exc # ""
       THEN Except("images_to_video", return_path, r2, images_folder_path,
                   "Error creating video from images")
       ELSE Emit("images_to_video", return_path, r2, Top(r2), fault, images_folder_path,
                 "Error creating video from images")

\* for i, frame in enumerate(frames): imageio.imwrite(folder/frame_i.png, frame)
RECURSIVE WriteFrames(_, _, _, _, _)
WriteFrames(rs, folder, n, i, fault) ==
    IF i >= n THEN rs
    ELSE WriteFrames(Write(rs, "imwrite", Loc(folder, "frame", i), Clip(0, 0), fault),
                     folder, n, i + 1, fault)

\* a frame extraction that registers the clip it cut the frames from
extract_frames_Store(video_path, start_time, end_time, fps, output_folder_name, return_path, fault) ==
    LET r1 == VideoStore_load(Begin, video_path)
        r2 == Engine(r1, "subclip", <<start_time, end_time>>,
                     fault = "xform" \/ subclip_raises(Top(r1), start_time, end_time),
                     subclip(Top(r1), start_time, end_time))
        n  == Max(0, Top(r2).dur * fps)
        r3 == [r2 EXCEPT !.trace = Append(@, Ev("makedirs", output_folder_name, <<>>))]
        r4 == WriteFrames(r3, output_folder_name, n, 0, fault)
        r5 == VideoStore_store(r2, Top(r2))
    IN IF r2.exc # ""
       THEN Except("extract_frames", return_path, r2, video_path, "Error extracting frames from video")
       ELSE IF return_path
       THEN IF r4.exc # ""
            THEN Except("extract_frames", return_path, r4, video_path,
                        "Error extracting frames from video")
            ELSE Result("extract_frames", return_path, TRUE,
                        PathEnvelope(Loc("", output_folder_name, 0)), r4, <<>>)
       ELSE Result("extract_frames", return_path, TRUE,
                   [success |-> TRUE, output_object |-> "frames", message |-> "ok"], r5, <<>>)

extract_frames(video_path, start_time, end_time, fps, output_folder_name, return_path, fault) ==
    LET r1 == VideoStore_load(Begin, video_path)
        r2 == Engine(r1, "subclip", <<start_time, end_time>>,
                     fault = "xform" \/ subclip_raises(Top(r1), start_time, end_time),
                     subclip(Top(r1), start_time, end_time))
        \* iter_frames yields one frame per 1/fps seconds of the subclip
        n  == Max(0, Top(r2).dur * fps)
        r3 == [r2 EXCEPT !.trace = Append(@, Ev("makedirs", output_folder_name, <<>>))]
        r4 == WriteFrames(r3, output_folder_name, n, 0, fault)
        r5 == [r2 EXCEPT !.trace = Append(@, Ev("iter_frames", "", <<n>>))]
    IN IF r2.exc # ""
       THEN Except("extract_frames", return_path, r2, video_path, "Error extracting frames from video")
       ELSE IF return_path
       THEN IF r4.exc # ""
            THEN Except("extract_frames", return_path, r4, video_path,
                        "Error extracting frames from video")
            ELSE Result("extract_frames", return_path, TRUE,
                        PathEnvelope(Loc("", output_folder_name, 0)), r4, <<>>)
       ELSE Result("extract_frames", return_path, TRUE,
                   [success |-> TRUE, output_object |-> "frames", message |-> "ok"], r5, <<>>)

mirror_video(video_path, output_name, return_path, fault) ==
    one_effect("mirror_video", video_path, output_name, return_path, fault,
               "mirror_x", <<>>, "Error mirroring video")

\* a loop that registers each segment as soon as it is cut
RECURSIVE Segments_StoreAsBuilt(_, _, _, _, _)
Segments_StoreAsBuilt(rs, video, b, i, fault) ==
    IF i >= Len(b) THEN rs
    ELSE Segments_StoreAsBuilt(
             VideoStore_store(Engine(rs, "subclip", <<b[i], b[i + 1]>>,
                                     fault = "xform" \/ subclip_raises(video, b[i], b[i + 1]),
                                     subclip(video, b[i], b[i + 1])),
                              subclip(video, b[i], b[i + 1])),
             video, b, i + 1, fault)

\* for i in range(len(split_times) - 1): segments.append(video.subclip(...))
RECURSIVE Segments(_, _, _, _, _)
Segments(rs, video, b, i, fault) ==
    IF i >= Len(b) THEN rs
    ELSE Segments(Engine(rs, "subclip", <<b[i], b[i + 1]>>,
                         fault = "xform" \/ subclip_raises(video, b[i], b[i + 1]),
                         subclip(video, b[i], b[i + 1])),
                  video, b, i + 1, fault)

\* for i, segment in enumerate(segments): segment.write_videofile(segment_path)
RECURSIVE WriteSegments(_, _, _, _, _)
WriteSegments(rs, segments, name, i, fault) ==
    IF i > Len(segments) THEN rs
    ELSE WriteSegments(Write(rs, "write_videofile", Loc(rs.path.name, name, i), segments[i], fault),
                       segments, name, i + 1, fault)

\* a store loop that registers once and hands the same reference out again
StoreSegments_Reuse(rs, segments, i) ==
    LET s1 == VideoStore_store(rs, segments[1])
    IN [s1 EXCEPT !.refs = [k \in 1..Len(segments) |-> s1.refs[1]]]

\* refs = [VideoStore.store(segment) for segment in segments]
RECURSIVE StoreSegments(_, _, _)
StoreSegments(rs, segments, i) ==
    IF i > Len(segments) THEN rs
    ELSE StoreSegments(VideoStore_store(rs, segments[i]), segments, i + 1)

\* boundaries that forget the leading 0
split_bounds_NoZero(split_times, duration) == split_times \o <<duration>>

\* split_times = [0] + split_times + [video.duration]
split_bounds(split_times, duration) == <<0>> \o split_times \o <<duration>>

split_video_at_times(video_path, split_times, output_name, return_path, fault) ==
    LET r1 == get_output_path(Begin, output_name, fault)
        r2 == VideoStore_load(r1, video_path)
        video == Top(r2)
        b  == split_bounds(split_times, video.dur)
        r3 == Segments([r2 EXCEPT !.clips = <<>>], video, b, 1, fault)
        segments == r3.clips
        r4 == WriteSegments(r3, segments, output_name, 1, fault)
        r5 == StoreSegments(r3, segments, 1)
    IN IF r2.exc # ""
       THEN Except("split_video_at_times", return_path, r2, video_path, "Error splitting video at times")
       ELSE IF r3.exc # ""
       THEN Except("split_video_at_times", return_path, r3, video_path, "Error splitting video at times")
       ELSE IF return_path
       THEN IF r4.exc # ""
            THEN Except("split_video_at_times", return_path, r4, video_path,
                        "Error splitting video at times")
            ELSE Result("split_video_at_times", return_path, TRUE,
                        [success |-> TRUE,
                         output_paths |-> [i \in 1..Len(r4.written) |-> r4.written[i].path],
                         message |-> "ok"], r4, <<>>)
       ELSE Result("split_video_at_times", return_path, TRUE,
                   [success |-> TRUE, output_objects |-> r5.refs], r5, <<>>)

\* a conversion that passes the clip through the engine before handing it on
convert_video_format_Reencode(video_path, output_name, return_path, fault) ==
    one_effect("convert_video_format", video_path, output_name, return_path, fault,
               "reencode", <<>>, "Error converting video format")

convert_video_format(video_path, output_name, return_path, fault) ==
    LET r1 == get_output_path(Begin, output_name, fault)
        r2 == VideoStore_load(r1, video_path)
    IN IF r2.exc # ""
       THEN Except("convert_video_format", return_path, r2, video_path, "Error converting video format")
       ELSE Emit("convert_video_format", return_path, r2, Top(r2), fault, video_path,
                 "Error converting video format")

\* an overlay that registers the base clip as soon as it is loaded
add_video_overlay_StoreBase(base_video_path, overlay_video_path, duration, output_name, return_path, fault) ==
    LET r1 == get_output_path(Begin, output_name, fault)
        r2 == VideoStore_load(r1, base_video_path)
        r3 == VideoStore_load(VideoStore_store(r2, Top(r2)), overlay_video_path)
        r4 == Engine(r3, "CompositeVideoClip", <<>>, fault = "xform",
                     Clip(Max(r3.clips[1].dur, duration),
                          Max(r3.clips[1].fx, r3.clips[2].fx) + 1))
    IN IF r4.exc # ""
       THEN Except("add_video_overlay", return_path, r4, base_video_path, "Error adding video overlay")
       ELSE Emit("add_video_overlay", return_path, r4, Top(r4), fault, base_video_path,
                 "Error adding video overlay")

add_video_overlay(base_video_path, overlay_video_path, duration, output_name, return_path, fault) ==
    LET r1 == get_output_path(Begin, output_name, fault)
        r2 == VideoStore_load(r1, base_video_path)
        r3 == VideoStore_load(r2, overlay_video_path)
        r4 == Engine(r3, "CompositeVideoClip", <<>>, fault = "xform",
                     Clip(Max(r3.clips[1].dur, duration),
                          Max(r3.clips[1].fx, r3.clips[2].fx) + 1))
    IN IF r4.exc # ""
       THEN Except("add_video_overlay", return_path, r4, base_video_path, "Error adding video overlay")
       ELSE Emit("add_video_overlay", return_path, r4, Top(r4), fault, base_video_path,
                 "Error adding video overlay")

(***************************************************************************)
(* State machine.                                                          *)
(***************************************************************************)
NoCall ==
    [op |-> "none", rp |-> FALSE, valid |-> TRUE, returned |-> TRUE,
     env |-> [success |-> FALSE], raised |-> "", trace |-> <<>>, written |-> <<>>,
     refs |-> <<>>, left |-> {}, log |-> <<>>, args |-> <<>>]

\* the handlers that can be running at once
Procs == {1, 2}
\* a handler slot with no call in it
NoTask ==
    [pc |-> "idle", op |-> "none", id |-> "", n |-> <<>>, video |-> Clip(0, 0),
     result |-> Clip(0, 0), ref |-> "", env |-> [success |-> FALSE]]

Init ==
    /\ store = << >>
    /\ nextRef = 0
    /\ issued = <<>>
    /\ trimmed = {}
    /\ openClips = {}
    /\ last = NoCall
    /\ calls = [p \in Procs |-> NoTask]

Identifiers == Paths \cup DOMAIN store
Times == -1..2
Sizes == {<<>>, <<2>>, <<2, 2>>, <<0, 2>>, <<2, 0>>, <<2, 2, 2>>}
Angles == {[num |-> TRUE, val |-> 90], [num |-> FALSE, val |-> 0]}
Speeds == {-1, 0, 1}
Durations == {0, 1}
Texts == {"", " ", "hi"}
FontSizes == {0, 12}
\* sequences over S of length at most n
RECURSIVE SeqsUpTo(_, _)
SeqsUpTo(S, n) ==
    IF n = 0 THEN {<<>>}
    ELSE LET shorter == SeqsUpTo(S, n - 1)
         IN shorter \cup {Append(q, x) : q \in {t \in shorter : Len(t) = n - 1}, x \in S}
\* split times tried next to the other tools, and by the split tool alone
FewSplits == {<<>>, <<1>>}
AllSplits == SeqsUpTo(0..3, MaxSplits)

\* A call whose validation fails never reads its identifier and never
\* reaches a fault, and a call that does not write never meets a write
\* fault: those inputs give the same call, so one of them is tried.
IdsOf(o) == IF o.valid THEN Identifiers ELSE {"in.mp4"}
FaultsOf(o, rp) ==
    IF ~o.valid THEN {"none"} ELSE IF rp THEN Faults ELSE Faults \ {"write"}

\* the server runs one call at a time
Idle == last.op = "none"

\* the call returns to the caller: its effects become the new state
Commit(o, args) ==
    /\ Cardinality(DOMAIN o.store) <= MaxStore
    /\ \A r \in DOMAIN o.store \ DOMAIN store : o.store[r].fx <= MaxFx
    /\ store' = o.store
    /\ nextRef' = o.next
    /\ issued' = issued \o o.refs
    /\ trimmed' = IF o.op = "trim_video" /\ "open" \in Kinds(o.trace)
                  THEN trimmed \cup Range(o.refs) ELSE trimmed
    /\ openClips' = openClips \cup o.left
    /\ last' = [op |-> o.op, rp |-> o.rp, valid |-> o.valid, returned |-> o.returned,
                env |-> o.env, raised |-> o.raised, trace |-> o.trace,
                written |-> o.written, refs |-> o.refs, left |-> o.left,
                log |-> o.log, args |-> args]
    /\ UNCHANGED calls

\* the envelope reaches the caller; the server waits for the next call
Return ==
    /\ last.op # "none"
    /\ last' = NoCall
    /\ UNCHANGED <<store, nextRef, issued, trimmed, openClips, calls>>

GetVideoInfo ==
    Idle /\
    \E id \in Identifiers, fault \in {"none", "xform"} :
        Commit(get_video_info(id, fault),
                   [id |-> id, fault |-> fault])

TrimVideo ==
    Idle /\
    \E s \in Times, e \in Times, name \in OutputNames, rp \in BOOLEAN :
      LET p == trim_video("in.mp4", s, e, name, rp, "none") IN
        \E id \in IdsOf(p), fault \in FaultsOf(p, rp) :
            Commit(trim_video(id, s, e, name, rp, fault),
                   [id |-> id, start |-> s, end |-> e, name |-> name, fault |-> fault])

MergeVideo ==
    Idle /\
    \E id \in Identifiers, id2 \in Identifiers, name \in OutputNames, rp \in BOOLEAN :
        \E fault \in FaultsOf([valid |-> TRUE], rp) :
            Commit(merge_video(id, id2, name, rp, fault),
                   [id |-> id, id2 |-> id2, name |-> name, fault |-> fault])

ResizeVideo ==
    Idle /\
    \E size \in Sizes, name \in OutputNames, rp \in BOOLEAN :
      LET p == resize_video("in.mp4", size, name, rp, "none") IN
        \E id \in IdsOf(p), fault \in FaultsOf(p, rp) :
            Commit(resize_video(id, size, name, rp, fault),
                   [id |-> id, size |-> size, name |-> name, fault |-> fault])

CropVideo ==
    Idle /\
    \E x1 \in {-1, 0}, y1 \in {-1, 0}, x2 \in {0, 1}, y2 \in {0, 1},
       name \in OutputNames, rp \in BOOLEAN :
      LET p == crop_video("in.mp4", x1, y1, x2, y2, name, rp, "none") IN
        \E id \in IdsOf(p), fault \in FaultsOf(p, rp) :
            Commit(crop_video(id, x1, y1, x2, y2, name, rp, fault),
                   [id |-> id, x1 |-> x1, y1 |-> y1, x2 |-> x2, y2 |-> y2, name |-> name, fault |-> fault])

RotateVideo ==
    Idle /\
    \E angle \in Angles, name \in OutputNames, rp \in BOOLEAN :
      LET p == rotate_video("in.mp4", angle, name, rp, "none") IN
        \E id \in IdsOf(p), fault \in FaultsOf(p, rp) :
            Commit(rotate_video(id, angle, name, rp, fault),
                   [id |-> id, angle |-> angle, name |-> name, fault |-> fault])

SpeedUpVideo ==
    Idle /\
    \E speed \in Speeds, name \in OutputNames, rp \in BOOLEAN :
      LET p == speed_up_video("in.mp4", speed, name, rp, "none") IN
        \E id \in IdsOf(p), fault \in FaultsOf(p, rp) :
            Commit(speed_up_video(id, speed, name, rp, fault),
                   [id |-> id, speed |-> speed, name |-> name, fault |-> fault])

AddAudio ==
    Idle /\
    \E id \in Identifiers, audio \in AudioPaths \cup {"missing.mp3"}, name \in OutputNames,
       rp \in BOOLEAN :
        \E fault \in FaultsOf([valid |-> TRUE], rp) :
            Commit(add_audio(id, audio, name, rp, fault),
                   [id |-> id, audio |-> audio, name |-> name, fault |-> fault])

FadeinVideo ==
    Idle /\
    \E d \in Durations, name \in OutputNames, rp \in BOOLEAN :
      LET p == fadein_video("in.mp4", d, name, rp, "none") IN
        \E id \in IdsOf(p), fault \in FaultsOf(p, rp) :
            Commit(fadein_video(id, d, name, rp, fault),
                   [id |-> id, duration |-> d, name |-> name, fault |-> fault])

FadeoutVideo ==
    Idle /\
    \E d \in Durations, name \in OutputNames, rp \in BOOLEAN :
      LET p == fadeout_video("in.mp4", d, name, rp, "none") IN
        \E id \in IdsOf(p), fault \in FaultsOf(p, rp) :
            Commit(fadeout_video(id, d, name, rp, fault),
                   [id |-> id, duration |-> d, name |-> name, fault |-> fault])

AddTextOverlay ==
    Idle /\
    \E text \in Texts, size \in FontSizes, d \in Durations, name \in OutputNames, rp \in BOOLEAN :
      LET p == add_text_overlay("in.mp4", text, size, d, name, rp, "none") IN
        \E id \in IdsOf(p), fault \in FaultsOf(p, rp) :
            Commit(add_text_overlay(id, text, size, d, name, rp, fault),
                   [id |-> id, text |-> text, font_size |-> size, duration |-> d, name |-> name, fault |-> fault])

AddImageOverlay ==
    Idle /\
    \E image \in ImagePaths \cup {"missing.png"}, d \in Durations, name \in OutputNames,
       rp \in BOOLEAN :
      LET p == add_image_overlay("in.mp4", image, d, name, rp, "none") IN
        \E id \in IdsOf(p), fault \in FaultsOf(p, rp) :
            Commit(add_image_overlay(id, image, d, name, rp, fault),
                   [id |-> id, image |-> image, duration |-> d, name |-> name, fault |-> fault])

GrayscaleVideo ==
    Idle /\
    \E id \in Identifiers, name \in OutputNames, rp \in BOOLEAN :
        \E fault \in FaultsOf([valid |-> TRUE], rp) :
            Commit(grayscale_video(id, name, rp, fault),
                   [id |-> id, name |-> name, fault |-> fault])

ImagesToVideo ==
    Idle /\
    \E folder \in ImageFolders \cup {"nofolder"}, fps \in {1}, name \in OutputNames,
       rp \in BOOLEAN :
        \E fault \in FaultsOf([valid |-> TRUE], rp) :
            Commit(images_to_video(folder, fps, name, rp, fault),
                   [id |-> folder, fps |-> fps, name |-> name, fault |-> fault])

ExtractFrames ==
    Idle /\
    \E id \in Identifiers, s \in {0, 2}, e \in {0, 2}, fps \in {1},
       folder \in {"shots"}, rp \in BOOLEAN :
        \E fault \in FaultsOf([valid |-> TRUE], rp) \ {"resolver"} :
            Commit(extract_frames(id, s, e, fps, folder, rp, fault),
                   [id |-> id, start |-> s, end |-> e, fps |-> fps, name |-> folder, fault |-> fault])

MirrorVideo ==
    Idle /\
    \E id \in Identifiers, name \in OutputNames, rp \in BOOLEAN :
        \E fault \in FaultsOf([valid |-> TRUE], rp) :
            Commit(mirror_video(id, name, rp, fault),
                   [id |-> id, name |-> name, fault |-> fault])

SplitWith(splits) ==
    Idle /\
    \E id \in Identifiers, times \in splits, name \in OutputNames, rp \in BOOLEAN :
        \E fault \in FaultsOf([valid |-> TRUE], rp) \cup
                      (IF rp THEN {LaterWrites[i] : i \in 1..Len(times)} ELSE {}) :
            Commit(split_video_at_times(id, times, name, rp, fault),
                   [id |-> id, times |-> times, name |-> name, fault |-> fault])

SplitVideoAtTimes == SplitWith(FewSplits)

ConvertVideoFormat ==
    Idle /\
    \E id \in Identifiers, name \in OutputNames, rp \in BOOLEAN :
        \E fault \in FaultsOf([valid |-> TRUE], rp) \ {"xform"} :
            Commit(convert_video_format(id, name, rp, fault),
                   [id |-> id, name |-> name, fault |-> fault])

AddVideoOverlay ==
    Idle /\
    \E id \in Identifiers, id2 \in Identifiers, d \in {1}, name \in OutputNames, rp \in BOOLEAN :
        \E fault \in FaultsOf([valid |-> TRUE], rp) :
            Commit(add_video_overlay(id, id2, d, name, rp, fault),
                   [id |-> id, id2 |-> id2, duration |-> d, name |-> name, fault |-> fault])

Next ==
    \/ GetVideoInfo
    \/ TrimVideo
    \/ MergeVideo
    \/ ResizeVideo
    \/ CropVideo
    \/ RotateVideo
    \/ SpeedUpVideo
    \/ AddAudio
    \/ FadeinVideo
    \/ FadeoutVideo
    \/ AddTextOverlay
    \/ AddImageOverlay
    \/ GrayscaleVideo
    \/ ImagesToVideo
    \/ ExtractFrames
    \/ MirrorVideo
    \/ SplitVideoAtTimes
    \/ ConvertVideoFormat
    \/ AddVideoOverlay
    \/ Return

Spec == Init /\ [][Next]_vars

\* the split tool alone, over every list of split times
SplitVideoAtAllTimes == SplitWith(AllSplits)

NextSplit ==
    \/ SplitVideoAtAllTimes
    \/ Return

SpecSplit == Init /\ [][NextSplit]_vars

(***************************************************************************)
(* Two handlers running at once.  trim_video and resize_video with         *)
(* return_path=False, cut at their calls to the Object Store: each call of *)
(* VideoStore.load and VideoStore.store is one step, and the steps of the  *)
(* two handlers interleave freely.                                         *)
(***************************************************************************)
\* the arguments the parallel calls are made with
TaskArgs ==
    {[op |-> "trim_video", n |-> <<0, 1>>], [op |-> "trim_video", n |-> <<1, 2>>],
     [op |-> "resize_video", n |-> <<1, 1>>], [op |-> "resize_video", n |-> <<0, 1>>]}
TaskMsg(op) == IF op = "trim_video" THEN "Error trimming video" ELSE "Error resizing video"
\* the input validation of the handler, which reads the arguments alone
TaskCheck(t) ==
    IF t.op = "trim_video"
    THEN trim_video("in.mp4", t.n[1], t.n[2], "out.mp4", FALSE, "none")
    ELSE resize_video("in.mp4", t.n, "out.mp4", FALSE, "none")
InFlight == {q \in Procs : calls[q].pc \notin {"idle", "returned"}}

\* a call arrives: validation, then get_output_path (no shared state)
CallBegin(p) ==
    /\ calls[p].pc \in {"idle", "returned"}
    /\ Cardinality(DOMAIN store) + Cardinality(InFlight) < MaxStore
    /\ \E t \in TaskArgs, id \in Identifiers :
          /\ id \in DOMAIN store => store[id].fx <= MaxFx
          /\ calls' = [calls EXCEPT ![p] =
                IF TaskCheck(t).valid
                THEN [NoTask EXCEPT !.pc = "load", !.op = t.op, !.id = id, !.n = t.n]
                ELSE [NoTask EXCEPT !.pc = "returned", !.op = t.op, !.id = id, !.n = t.n,
                                    !.env = TaskCheck(t).env]]
    /\ UNCHANGED <<store, nextRef, issued, trimmed, openClips, last>>

\* video = VideoStore.load(video_path)
CallLoad(p) ==
    /\ calls[p].pc = "load"
    /\ LET r == VideoStore_load(Begin, calls[p].id)
       IN /\ calls' = [calls EXCEPT ![p] =
                IF r.exc # ""
                THEN [@ EXCEPT !.pc = "returned",
                               !.env = ExceptionEnvelope(r.exc, TaskMsg(calls[p].op))]
                ELSE [@ EXCEPT !.pc = "xform", !.video = Top(r)]]
          /\ openClips' = openClips \cup r.open
    /\ UNCHANGED <<store, nextRef, issued, trimmed, last>>

\* trimmed_video = video.subclip(start_time, end_time) /
\* resized_video = video.resize(size)
CallTransform(p) ==
    /\ calls[p].pc = "xform"
    /\ LET c == calls[p]
           r == IF c.op = "trim_video"
                THEN Engine([Begin EXCEPT !.clips = <<c.video>>], "subclip", c.n,
                            subclip_raises(c.video, c.n[1], c.n[2]),
                            subclip(c.video, c.n[1], c.n[2]))
                ELSE Engine([Begin EXCEPT !.clips = <<c.video>>], "resize", c.n,
                            FALSE, effect(c.video))
       IN calls' = [calls EXCEPT ![p] =
             IF r.exc # ""
             THEN [@ EXCEPT !.pc = "returned",
                            !.env = ExceptionEnvelope(r.exc, TaskMsg(calls[p].op))]
             ELSE [@ EXCEPT !.pc = "store", !.result = Top(r)]]
    /\ UNCHANGED <<store, nextRef, issued, trimmed, openClips, last>>

\* a handler that files its result under a name made from output_name
CallStore_ByName(p) ==
    /\ calls[p].pc = "store"
    /\ LET ref == RefName[1]
       IN /\ store' = [r \in DOMAIN store \cup {ref} |->
                          IF r = ref THEN calls[p].result ELSE store[r]]
          /\ nextRef' = Max(nextRef, 1)
          /\ issued' = Append(issued, ref)
          /\ calls' = [calls EXCEPT ![p] = [@ EXCEPT !.pc = "return", !.ref = ref]]
    /\ UNCHANGED <<trimmed, openClips, last>>

\* ref = VideoStore.store(trimmed_video)
CallStore(p) ==
    /\ calls[p].pc = "store"
    /\ LET s == VideoStore_store(Begin, calls[p].result)
       IN /\ store' = s.store
          /\ nextRef' = s.next
          /\ issued' = issued \o s.refs
          /\ calls' = [calls EXCEPT ![p] = [@ EXCEPT !.pc = "return", !.ref = s.refs[1]]]
    /\ UNCHANGED <<trimmed, openClips, last>>

\* return {"success": True, "output_object": ref, ...}
CallReturn(p) ==
    /\ calls[p].pc = "return"
    /\ calls' = [calls EXCEPT ![p] = [@ EXCEPT !.pc = "returned",
                                               !.env = ObjectEnvelope(calls[p].ref)]]
    /\ UNCHANGED <<store, nextRef, issued, trimmed, openClips, last>>

CallsBegin == \E p \in Procs : CallBegin(p)
CallsLoad == \E p \in Procs : CallLoad(p)
CallsTransform == \E p \in Procs : CallTransform(p)
CallsStore == \E p \in Procs : CallStore(p)
CallsReturn == \E p \in Procs : CallReturn(p)

NextParallel ==
    \/ CallsBegin
    \/ CallsLoad
    \/ CallsTransform
    \/ CallsStore
    \/ CallsReturn

SpecParallel == Init /\ [][NextParallel]_vars

(***************************************************************************)
(* Properties.                                                             *)
(***************************************************************************)
Pending == last.op # "none"
env == last.env
OutFields(e) == DOMAIN e \cap OutputFields
NoDup(q) == \A i, j \in 1..Len(q) : i # j => q[i] # q[j]
\* the clip an identifier resolves to
Loadable(id) == id \in DOMAIN store \/ id \in OpenablePaths
InputClip(id) == IF id \in DOMAIN store THEN store[id] ELSE Clip(FileDuration[id], 0)
\* the references an envelope hands to the caller
EnvRefs ==
    IF last.op = "extract_frames" THEN <<>>
    ELSE IF "output_object" \in DOMAIN env THEN <<env.output_object>>
    ELSE IF "output_objects" \in DOMAIN env THEN env.output_objects
    ELSE <<>>
\* the file locations an envelope hands to the caller
EnvPaths(e) ==
    IF "output_path" \in DOMAIN e THEN <<e.output_path>>
    ELSE IF "output_paths" \in DOMAIN e THEN e.output_paths
    ELSE <<>>
WrittenPaths(c) == {c.written[i].path : i \in 1..Len(c.written)}
WriteKinds == {"write_videofile", "imwrite", "makedirs"}

\* the envelope contract of the tools that take return_path
EnvelopeShape(c) ==
    IF c.env.success
    THEN /\ Cardinality(OutFields(c.env)) = 1
         /\ c.rp => OutFields(c.env) \subseteq {"output_path", "output_paths"}
         /\ ~c.rp => OutFields(c.env) \subseteq {"output_object", "output_objects"}
    ELSE OutFields(c.env) = {}

\* C1 (as stated): every tool's envelope carries exactly one output field,
\* chosen by return_path, when success is true and none when it is false.
C1_EveryToolOneOutput == Pending => EnvelopeShape(last)

\* C1 (amended): every tool other than get_video_info returns an envelope
\* with exactly one output field chosen by return_path on success and none
\* on failure; get_video_info never carries an output field, its success
\* envelope carries video_info instead.
C1_EnvelopeShape ==
    Pending =>
        IF last.op = "get_video_info"
        THEN /\ OutFields(env) = {}
             /\ env.success => "video_info" \in DOMAIN env
        ELSE EnvelopeShape(last)

C1_Witness ==
    /\ last.op = "trim_video" /\ env.success /\ ~last.rp
    /\ OutFields(env) = {"output_object"}

\* the argument of the call violates the precondition of its tool
OutOfPrecondition(c) ==
    LET a == c.args IN
    CASE c.op = "trim_video" -> a.start < 0 \/ a.end < 0 \/ a.start >= a.end
      [] c.op = "resize_video" ->
            IF Len(a.size) # 2 THEN TRUE ELSE a.size[1] <= 0 \/ a.size[2] <= 0
      [] c.op = "crop_video" -> a.x1 < 0 \/ a.y1 < 0 \/ a.x2 <= a.x1 \/ a.y2 <= a.y1
      [] c.op = "speed_up_video" -> a.speed <= 0
      [] c.op \in {"fadein_video", "fadeout_video", "add_image_overlay"} -> a.duration <= 0
      [] c.op = "add_text_overlay" ->
            a.text \in {"", " "} \/ a.font_size <= 0 \/ a.duration <= 0
      [] OTHER -> FALSE

\* C2: a call of trim, resize, crop, speed, fade in/out, text or image
\* overlay with an out-of-precondition argument returns success=false with
\* an error text and calls neither the Path Resolver, the Object Store nor
\* the Media Engine.
C2_InvalidTouchesNothing ==
    (Pending /\ OutOfPrecondition(last)) =>
        /\ ~env.success
        /\ "error" \in DOMAIN env
        /\ last.trace = <<>>
        /\ last.refs = <<>> /\ last.written = <<>>

C2_Witness ==
    /\ last.op = "crop_video" /\ last.args.x2 <= last.args.x1
    /\ ~env.success /\ last.trace = <<>>

\* C3 (as stated): split_video_at_times with a split time outside
\* (0, duration) returns success=false, calls no engine subclip or write and
\* adds nothing to the Object Store.
C3_SplitRejectsOutOfRange ==
    (/\ last.op = "split_video_at_times"
     /\ Loadable(last.args.id)
     /\ \E i \in 1..Len(last.args.times) :
            \/ last.args.times[i] <= 0
            \/ last.args.times[i] >= InputClip(last.args.id).dur)
    => /\ ~env.success
       /\ Kinds(last.trace) \cap {"subclip", "write_videofile", "store"} = {}
       /\ last.refs = <<>>

\* C4: no tool propagates an exception: when the Path Resolver, a load, an
\* engine transformation or a write raises, the call still returns an
\* envelope, with success=false and both error and error_type.
C4_NoExceptionEscapes ==
    Pending =>
        /\ last.returned
        /\ last.raised # "" =>
              /\ ~env.success
              /\ {"error", "error_type"} \subseteq DOMAIN env

C4_Witness ==
    /\ last.op = "add_audio" /\ last.raised = "EncodeError"
    /\ last.returned /\ ~env.success /\ "error_type" \in DOMAIN env

\* C5: no two store registrations return the same reference: the references
\* handed out over the life of the process are pairwise different, and the
\* references in an envelope are the ones registered by that call.
C5_ReferencesUnique ==
    /\ NoDup(issued)
    /\ Pending =>
          /\ Len(EnvRefs) <= Len(issued)
          /\ EnvRefs = SubSeq(issued, Len(issued) - Len(EnvRefs) + 1, Len(issued))
          /\ env.success => EnvRefs = last.refs

C5_Witness ==
    /\ last.op = "convert_video_format" /\ last.args.id \in Range(issued)
    /\ env.success /\ Len(EnvRefs) = 1 /\ EnvRefs[1] # last.args.id
    /\ store[EnvRefs[1]] = store[last.args.id]

\* C6: a reference that has been returned keeps resolving to the same clip:
\* no step removes an entry of the Object Store or binds an existing
\* reference to another clip.
C6_ReferencesStable ==
    [][\A r \in DOMAIN store : r \in DOMAIN store' /\ store'[r] = store[r]]_vars

C6_Witness ==
    /\ Pending /\ Len(issued) >= 2 /\ last.refs # <<>>
    /\ \E r \in Range(issued) \ Range(last.refs) : r \in DOMAIN store

\* C7 (as stated): a successful return_path=true call leaves the Object
\* Store as it was and returns only after the engine wrote the clip to the
\* resolved destination; a successful return_path=false call writes nothing.
C7_WriteToResolved(c) ==
    /\ "resolve" \in Kinds(c.trace)
    /\ c.written # <<>>
    /\ Range(EnvPaths(c.env)) \subseteq WrittenPaths(c)
    /\ c.trace[Len(c.trace)].k = "write_videofile"
C7_NoWrite(c) ==
    /\ c.written = <<>>
    /\ Kinds(c.trace) \cap WriteKinds = {}
C7_Step(exempt) ==
    (Idle /\ last'.op \notin {"none", "get_video_info"} /\ last'.env.success) =>
        IF last'.rp
        THEN /\ store' = store
             /\ IF last'.op \in exempt
                THEN /\ "resolve" \notin Kinds(last'.trace)
                     /\ "makedirs" \in Kinds(last'.trace)
                     /\ last'.env.output_path = Loc("", last'.args.name, 0)
                     /\ \A w \in WrittenPaths(last') : w.dir = last'.args.name
                ELSE C7_WriteToResolved(last')
        ELSE C7_NoWrite(last')

C7_WriteOrStore == [][C7_Step({})]_vars

\* C7 (amended): a successful return_path=true call leaves the Object Store
\* as it was; every tool but extract_frames returns its output path(s) only
\* after the engine wrote them under the resolved destination, while
\* extract_frames asks no Path Resolver and writes its frame images (there
\* may be none) into the folder the caller named; a successful
\* return_path=false call writes nothing and creates no file.
C7_WriteOrStoreButFrames == [][C7_Step({"extract_frames"})]_vars

C7_Witness ==
    /\ last.op = "grayscale_video" /\ last.rp /\ env.success
    /\ store # << >>
    /\ last.written = <<[path |-> resolve_output(last.args.name),
                         clip |-> effect(InputClip(last.args.id))]>>

\* C8: a reference returned by trim_video (path input, return_path=false)
\* and passed to fadein_video with return_path=true is resolved from the
\* Object Store to the trimmed clip, never opened as a path, and the call
\* writes the faded trimmed clip to the resolved path and returns it.
C8_ChainByReference ==
    /\ \A r \in trimmed : r \in DOMAIN store /\ store[r].fx = 1
    /\ (/\ last.op = "fadein_video" /\ last.rp
        /\ last.args.id \in trimmed
        /\ last.args.duration > 0 /\ last.args.fault = "none")
       => /\ env.success
          /\ "error" \notin DOMAIN env
          /\ env.output_path = resolve_output(last.args.name)
          /\ "open" \notin Kinds(last.trace)
          /\ \E i \in 1..Len(last.trace) :
                last.trace[i] = Ev("load", last.args.id, <<>>)
          /\ last.written = <<[path |-> resolve_output(last.args.name),
                               clip |-> Clip(store[last.args.id].dur, 2)]>>
          /\ last.refs = <<>>

C8_Witness ==
    /\ last.op = "fadein_video" /\ last.rp /\ last.args.id \in trimmed
    /\ env.success /\ Len(last.written) = 1
    /\ last.written[1].clip.fx = 2

\* the subclip calls of a trace, in order
RECURSIVE SubclipCalls(_)
SubclipCalls(tr) ==
    IF tr = <<>> THEN <<>>
    ELSE IF tr[1].k = "subclip" THEN <<tr[1].n>> \o SubclipCalls(Tail(tr))
    ELSE SubclipCalls(Tail(tr))
RECURSIVE SumDur(_)
SumDur(cs) == IF cs = <<>> THEN 0 ELSE cs[1].dur + SumDur(Tail(cs))

\* C9: a successful split over N split times makes exactly N+1 segments,
\* segment i being subclip(b[i], b[i+1]) for b = [0, t1, ..., tN, D] in the
\* order given; the segment durations sum to D and the envelope lists the
\* N+1 outputs in segment order.
C9_SplitSegments ==
    (last.op = "split_video_at_times" /\ env.success) =>
        LET times == last.args.times
            N == Len(times)
            D == InputClip(last.args.id).dur
            b == [i \in 1..(N + 2) |->
                    IF i = 1 THEN 0 ELSE IF i = N + 2 THEN D ELSE times[i - 1]]
            segs == IF last.rp
                    THEN [i \in 1..Len(last.written) |-> last.written[i].clip]
                    ELSE [i \in 1..Len(last.refs) |-> store[last.refs[i]]]
        IN /\ SubclipCalls(last.trace) = [i \in 1..(N + 1) |-> <<b[i], b[i + 1]>>]
           /\ Len(segs) = N + 1
           /\ \A i \in 1..(N + 1) : segs[i].dur = b[i + 1] - b[i]
           /\ SumDur(segs) = D
           /\ IF last.rp
              THEN /\ OutFields(env) = {"output_paths"}
                   /\ Len(env.output_paths) = N + 1
                   /\ \A i \in 1..(N + 1) :
                         /\ env.output_paths[i] = last.written[i].path
                         /\ env.output_paths[i].part = i
              ELSE /\ OutFields(env) = {"output_objects"}
                   /\ env.output_objects = last.refs

C9_Witness ==
    /\ last.op = "split_video_at_times" /\ env.success /\ ~last.rp
    /\ last.args.times = <<1, 1>>
    /\ Len(env.output_objects) = 3

\* C10: get_video_info never changes the Object Store, and whenever the
\* engine opened the clip (success, or an exception after the open) the clip
\* has been closed when the envelope is returned.
C10_Step ==
    (Idle /\ last'.op = "get_video_info") =>
        /\ store' = store /\ nextRef' = nextRef /\ issued' = issued
        /\ "store" \notin Kinds(last'.trace)
        /\ last'.left = {} /\ openClips' = openClips
        /\ \A i \in 1..Len(last'.trace) :
              (last'.trace[i].k = "open" /\ last'.raised # "OSError") =>
                  \E j \in (i + 1)..Len(last'.trace) : last'.trace[j].k = "close"
C10_InfoClosesClip == [][C10_Step]_vars

C10_Witness ==
    /\ last.op = "get_video_info" /\ last.raised = "EngineError"
    /\ "close" \in Kinds(last.trace) /\ last.left = {} /\ store # << >>

\* C11: a call that opened a clip from a path and put no clip in the Object
\* Store has closed every clip it opened when its envelope is returned.
C11_PathClipsClosed ==
    (Pending /\ last.refs = <<>>) => last.left = {}

\* the clip identifiers a call was given, in the order its handler reads them
ClipInputs(c) ==
    IF c.op \in {"merge_video", "add_video_overlay"} THEN <<c.args.id, c.args.id2>>
    ELSE IF c.op = "add_audio" THEN <<c.args.id, c.args.audio>>
    ELSE IF c.op = "images_to_video" THEN <<>>
    ELSE <<c.args.id>>
\* position i of the inputs names something its store can give
Resolvable(c, i) ==
    IF c.op = "add_audio" /\ i = 2
    THEN ClipInputs(c)[i] \in AudioPaths
    ELSE ClipInputs(c)[i] \in DOMAIN store \cup OpenablePaths
\* the identifiers asked of the Object Store, in order
RECURSIVE Loads(_)
Loads(tr) ==
    IF tr = <<>> THEN <<>>
    ELSE (IF Head(tr).k = "load" THEN <<Head(tr).a>> ELSE <<>>) \o Loads(Tail(tr))
\* the call got as far as resolving its inputs
ReachedInputs(c) == c.valid /\ c.args.fault # "resolver"
\* every input is asked of the store, in order, up to the first that cannot
\* be resolved; a reference among them is never opened as a file, and the
\* call fails on an input only if one of them cannot be resolved
LoadsItsInputs(c) ==
    LET ids == ClipInputs(c)
    IN /\ \E n \in 0..Len(ids) :
             /\ Loads(c.trace) = SubSeq(ids, 1, n)
             /\ n = Len(ids) \/ (n > 0 /\ ~Resolvable(c, n))
       /\ \A i \in 1..Len(ids) :
             ids[i] \in DOMAIN store => Ev("open", ids[i], <<>>) \notin Range(c.trace)
       /\ c.raised = "OSError" <=> \E i \in 1..Len(ids) : ~Resolvable(c, i)

\* C12 (as stated): every tool, get_video_info included, resolves each of
\* its input identifiers through Object Store load, so a reference is
\* accepted wherever a path is.
C12_EveryToolLoads ==
    (Pending /\ ReachedInputs(last)) => LoadsItsInputs(last)

\* C12 (amended): every tool but get_video_info resolves each of its video
\* and audio identifiers through Object Store load, in order, so a reference
\* is accepted wherever a path is (both inputs of merge_video and
\* add_video_overlay, the video and the audio of add_audio); get_video_info
\* opens its argument as a file and so fails on a reference.
C12_ToolsLoadButInfo ==
    (Pending /\ ReachedInputs(last)) =>
        IF last.op = "get_video_info"
        THEN /\ Loads(last.trace) = <<>>
             /\ last.trace[1] = Ev("open", last.args.id, <<>>)
             /\ last.args.id \in DOMAIN store => (~env.success /\ last.raised = "OSError")
        ELSE LoadsItsInputs(last)

C12_Witness ==
    /\ last.op = "merge_video" /\ env.success
    /\ last.args.id \in DOMAIN store /\ last.args.id2 \in DOMAIN store
    /\ last.args.id # last.args.id2
    /\ Loads(last.trace) = <<last.args.id, last.args.id2>>
    /\ "open" \notin Kinds(last.trace)

\* a validation failure: success=false with error and message, no
\* error_type, and nothing logged
QuietRejection(c) ==
    ~c.valid => /\ ~c.env.success
                /\ DOMAIN c.env = {"success", "error", "message"}
                /\ c.log = <<>>
\* the input a failed call failed on: the first identifier that could not be
\* resolved, or else the video the call was working on
FailingInput(c) ==
    LET ids == ClipInputs(c)
        bad == {i \in 1..Len(ids) : ~Resolvable(c, i)}
    IN IF c.raised = "OSError" /\ bad # {}
       THEN ids[CHOOSE i \in bad : \A j \in bad : i <= j]
       ELSE c.args.id

\* C13 (as stated): an error is logged exactly when an exception was caught;
\* a validation failure logs nothing and has no error_type; an exception is
\* logged once, naming the input that failed.
C13_LogNamesFailingInput ==
    Pending =>
        /\ last.log # <<>> <=> last.raised # ""
        /\ QuietRejection(last)
        /\ last.raised # "" =>
              /\ ~env.success /\ "error_type" \in DOMAIN env
              /\ Len(last.log) = 1
              /\ FailingInput(last) \in Range(last.log[1])

\* C13 (amended): an error is logged exactly when an exception was caught; a
\* validation failure logs nothing and has no error_type; an exception is
\* logged once, naming the first input of the call (merge_video names both
\* of its inputs), whichever input failed.
C13_LogNamesFirstInput ==
    Pending =>
        /\ last.log # <<>> <=> last.raised # ""
        /\ QuietRejection(last)
        /\ last.raised # "" =>
              /\ ~env.success /\ "error_type" \in DOMAIN env
              /\ last.log = IF last.op = "merge_video"
                            THEN << <<last.args.id, last.args.id2>> >>
                            ELSE << <<last.args.id>> >>

C13_Witness ==
    /\ last.op = "add_audio" /\ last.raised = "OSError"
    /\ last.args.id \in OpenablePaths /\ last.args.audio \notin AudioPaths
    /\ last.log = << <<last.args.id>> >>
    /\ ~env.success /\ env.error_type = "OSError"

\* C14: a successful convert_video_format with return_path=false calls no
\* engine transformation and writes nothing: it registers the clip its input
\* resolved to, unchanged, under one new reference; every earlier reference,
\* the input's included, still loads to the clip it did.
C14_Step ==
    (Idle /\ last'.op = "convert_video_format" /\ ~last'.rp /\ last'.env.success) =>
        /\ Kinds(last'.trace) \subseteq {"resolve", "load", "open", "store"}
        /\ last'.written = <<>>
        /\ Len(last'.refs) = 1
        /\ last'.env.output_object = last'.refs[1]
        /\ last'.refs[1] \notin DOMAIN store
        /\ DOMAIN store' = DOMAIN store \cup {last'.refs[1]}
        /\ store'[last'.refs[1]] = InputClip(last'.args.id)
        /\ \A r \in DOMAIN store : store'[r] = store[r]
C14_ConvertStoresInput == [][C14_Step]_vars

C14_Witness ==
    /\ last.op = "convert_video_format" /\ ~last.rp /\ env.success
    /\ last.args.id \in DOMAIN store
    /\ env.output_object # last.args.id
    /\ store[env.output_object] = store[last.args.id]
    /\ Kinds(last.trace) = {"resolve", "load", "store"}

\* the handler in slot p has registered its result
Stored(p) == calls[p].pc \in {"return", "returned"} /\ calls[p].ref # ""

C16_Step ==
    (Idle /\ last'.op # "none") =>
        LET tr == last'.trace
        IN /\ ~last'.env.success =>
                 /\ store' = store /\ nextRef' = nextRef /\ issued' = issued
                 /\ last'.refs = <<>>
                 /\ "store" \notin Kinds(tr)
           /\ store' # store => last'.env.success /\ last'.refs # <<>>
           /\ \A i \in 1..Len(tr) :
                 tr[i].k = "store" => \A j \in i..Len(tr) : tr[j].k = "store"
C16_FailureLeavesStore == [][C16_Step]_vars

C16_Witness ==
    /\ last.op = "add_video_overlay" /\ ~env.success
    /\ last.raised = "EncodeError"
    /\ last.args.id \in DOMAIN store /\ last.args.id2 \in OpenablePaths
    /\ last.refs = <<>> /\ "store" \notin Kinds(last.trace)

\* the tools that hand back a single clip
SingleOutputOps ==
    {"trim_video", "merge_video", "resize_video", "crop_video", "rotate_video",
     "speed_up_video", "add_audio", "fadein_video", "fadeout_video",
     "add_text_overlay", "add_image_overlay", "grayscale_video", "images_to_video",
     "mirror_video", "convert_video_format", "add_video_overlay"}
\* the number of entries one call is to add to the Object Store
ExpectedGrowth(c) ==
    IF ~c.env.success \/ c.rp THEN 0
    ELSE IF c.op \in SingleOutputOps THEN 1
    ELSE IF c.op = "split_video_at_times" THEN Len(c.args.times) + 1
    ELSE 0

\* C17: no step removes an entry of the Object Store, and a call adds
\* exactly one entry when it is a successful return_path=false call of a
\* single-output tool, N+1 entries when it is a successful return_path=false
\* split with N split times, and none otherwise.
C17_Step ==
    /\ DOMAIN store \subseteq DOMAIN store'
    /\ (Idle /\ last'.op # "none") =>
          Cardinality(DOMAIN store') = Cardinality(DOMAIN store) + ExpectedGrowth(last')
    /\ ~Idle => store' = store
C17_StoreGrowth == [][C17_Step]_vars

C17_Witness ==
    /\ last.op = "split_video_at_times" /\ ~last.rp /\ env.success
    /\ Len(last.args.times) = 1
    /\ Cardinality(DOMAIN store) = 3
    /\ Len(last.refs) = 2

\* the positions of the events of kind k in a trace
At(tr, k) == {i \in 1..Len(tr) : tr[i].k = k}

\* C18: split_video_at_times with return_path=false cuts all N+1 segments
\* before it registers the first, so when cutting any segment raises, no
\* reference is registered and the envelope is a failure; with
\* return_path=true a write that fails on segment k gives a failure envelope
\* without output_paths, and the files of segments 1..k-1 stay written.
C18_Step ==
    (Idle /\ last'.op = "split_video_at_times" /\ "load" \in Kinds(last'.trace)
          /\ last'.raised # "OSError") =>
        LET c  == last'
            tr == c.trace
            N  == Len(c.args.times)
            k  == Cardinality(At(tr, "write_videofile"))
        IN /\ (~c.rp /\ c.env.success) =>
                 /\ Cardinality(At(tr, "subclip")) = N + 1
                 /\ Cardinality(At(tr, "store")) = N + 1
                 /\ \A i \in At(tr, "subclip"), j \in At(tr, "store") : i < j
           /\ c.raised = "EngineError" =>
                 /\ ~c.env.success /\ OutFields(c.env) = {}
                 /\ c.refs = <<>> /\ At(tr, "store") = {}
                 /\ c.written = <<>> /\ At(tr, "write_videofile") = {}
                 /\ store' = store /\ nextRef' = nextRef
           /\ c.raised = "EncodeError" =>
                 /\ c.rp /\ ~c.env.success /\ OutFields(c.env) = {}
                 /\ k \in 1..(N + 1)
                 /\ Len(c.written) = k - 1
                 /\ \A i \in 1..(k - 1) :
                       c.written[i].path = Loc(resolve_output(c.args.name).name, c.args.name, i)
                 /\ store' = store /\ nextRef' = nextRef
C18_SplitAllOrNothing == [][C18_Step]_vars

C18_Witness ==
    /\ last.op = "split_video_at_times" /\ ~last.rp /\ ~env.success
    /\ last.raised = "EngineError"
    /\ Cardinality(At(last.trace, "subclip")) = 2
    /\ last.refs = <<>> /\ store # << >>

\* a write that failed on the last of three segments, two of them written
C18_LaterWriteFails ==
    /\ last.op = "split_video_at_times" /\ last.rp /\ ~env.success
    /\ last.raised = "EncodeError" /\ Len(last.written) = 2

\* the tools that take an output_name
OutputNameOps == SingleOutputOps \cup {"split_video_at_times"}
\* the place of a call in the order of a handler's steps
Stage(k) ==
    IF k = "resolve" THEN 1
    ELSE IF k \in {"load", "open"} THEN 2
    ELSE IF k \in {"write_videofile", "store"} THEN 4
    ELSE 3

\* C19: in every tool that takes an output_name a call that passes
\* validation first asks the Path Resolver, whatever return_path is, then
\* loads its inputs, then calls the engine's transformations, then writes or
\* stores; a call that fails validation does none of it, and when the Path
\* Resolver fails the envelope is a failure and nothing was loaded,
\* transformed, written or stored.
C19_StepOrder ==
    (Pending /\ last.op \in OutputNameOps) =>
        LET tr == last.trace
        IN /\ ~last.valid => tr = <<>>
           /\ last.valid =>
                 /\ tr # <<>> /\ tr[1] = Ev("resolve", last.args.name, <<>>)
                 /\ Cardinality(At(tr, "resolve")) = 1
                 /\ \A i, j \in 1..Len(tr) : i < j => Stage(tr[i].k) <= Stage(tr[j].k)
                 /\ last.raised = "" => Stage(tr[Len(tr)].k) = 4
                 /\ last.args.fault = "resolver" =>
                       /\ ~env.success /\ last.raised = "ResolverError"
                       /\ Len(tr) = 1
                       /\ last.written = <<>> /\ last.refs = <<>> /\ last.left = {}

C19_Witness ==
    /\ last.op = "merge_video" /\ ~last.rp /\ ~env.success
    /\ last.args.fault = "resolver"
    /\ last.args.id \in DOMAIN store /\ last.args.id2 \in OpenablePaths
    /\ Kinds(last.trace) = {"resolve"}
====
